---- MODULE Spec2Model ----
(***************************************************************************)
(* Smart Tutor backend: the video ingestion pipeline (routes/videos.py),   *)
(* URL validation (youtube_service.py), the transcript acquirer and chunk  *)
(* merger (transcription_service.py), the summary generator, the context   *)
(* builder and the answer generators (ai_service.py) and the ask routes    *)
(* (routes/qa.py).                                                         *)
(*                                                                         *)
(* Texts are sequences of one-character strings, so that strip(), the      *)
(* space join and the sentence-end regular expression are computed on the  *)
(* characters.  Times are whole seconds; caption payloads carry whole      *)
(* thousands of milliseconds so that ms / 1000.0 is exact.                 *)
(*                                                                         *)
(* Every database call is one atomic step (one PostgREST round trip).      *)
(* In Spec the calls themselves succeed, except the insert that violates   *)
(* the unique youtube_video_id; external services (caption download,       *)
(* audio download, speech-to-text, summarization) succeed or fail freely.  *)
(* In SpecFaults every database call of the ingestion pipeline may raise,  *)
(* and started requests and scheduled tasks are run to their end.          *)
(* A finished run keeps only its video, its origin and its result.         *)
(***************************************************************************)
EXTENDS Integers, Sequences, FiniteSets, TLC

VARIABLES
    videos,             \* table videos: youtube_video_id -> row (status, summary)
    transcript_chunks,  \* table transcript_chunks: rows in insertion order
    handler,            \* per server process: the submit_video request on its event loop
    runs,               \* the _process_video background tasks, by schedule order
    sttCalls,           \* audio sizes the speech-to-text service was invoked with
    segments,           \* chunk merger harness: the input segment list
    mchunks,            \* chunk merger harness: the returned chunks
    mpc,                \* chunk merger harness: position
    qa_history,         \* table qa_history: rows in created_at order
    ctx,                \* context harness: the arguments and result of build_context
    ask                 \* the ask request being served: position, locals, events sent

vars == <<videos, transcript_chunks, handler, runs, sttCalls, segments, mchunks, mpc,
          qa_history, ctx, ask>>

(***************************************************************************)
(* Bounds                                                                  *)
(***************************************************************************)
MaxSegs == 3            \* longest segment list given to the merger harness

MaxRuns == 3            \* _process_video tasks scheduled in one behaviour

NumWorkers == 2         \* server processes sharing the one database

(***************************************************************************)
(* Text helpers                                                            *)
(***************************************************************************)
Whitespace == {" ", "\n"}

Terminal == {".", "!", "?"}

RECURSIVE RStrip(_)
RStrip(t) ==
    IF t # <<>> /\ t[Len(t)] \in Whitespace
    THEN RStrip(SubSeq(t, 1, Len(t) - 1))
    ELSE t

RECURSIVE LStrip(_)
LStrip(t) ==
    IF t # <<>> /\ t[1] \in Whitespace
    THEN LStrip(SubSeq(t, 2, Len(t)))
    ELSE t

Strip(t) == LStrip(RStrip(t))

\* re.search(r'[.!?]\s*$', text): a terminal mark followed only by whitespace
is_sentence_end(t) ==
    LET s == RStrip(t) IN s # <<>> /\ s[Len(s)] \in Terminal

(***************************************************************************)
(* Chunk merger: _merge_into_chunks                                        *)
(***************************************************************************)
window_seconds == 30

NewChunk(seg) ==
    [start_time |-> seg.start_time, end_time |-> seg.end_time, text |-> seg.text]

\* slip: the merge branch updates start_time instead of end_time
ExtendChunkWrongKey(cur, seg) ==
    [cur EXCEPT !.start_time = seg.end_time,
                !.text = cur.text \o <<" ">> \o seg.text]

ExtendChunk(cur, seg) ==
    [cur EXCEPT !.end_time = seg.end_time,
                !.text = cur.text \o <<" ">> \o seg.text]

\* slip: either condition alone closes the chunk
ShouldSplitEither(cur, seg, window) ==
    LET elapsed == seg.end_time - cur.start_time
    IN  elapsed >= window \/ is_sentence_end(cur.text)

ShouldSplit(cur, seg, window) ==
    LET elapsed == seg.end_time - cur.start_time
    IN  elapsed >= window /\ is_sentence_end(cur.text)

\* slip: the final in-progress chunk is not appended after the loop
RECURSIVE MergeLoopNoFinal(_, _, _, _, _)
MergeLoopNoFinal(segs, i, chunks, cur, window) ==
    IF i > Len(segs)
    THEN chunks
    ELSE IF ShouldSplit(cur, segs[i], window)
         THEN MergeLoopNoFinal(segs, i + 1, Append(chunks, cur), NewChunk(segs[i]), window)
         ELSE MergeLoopNoFinal(segs, i + 1, chunks, ExtendChunk(cur, segs[i]), window)

RECURSIVE MergeLoop(_, _, _, _, _)
MergeLoop(segs, i, chunks, cur, window) ==
    IF i > Len(segs)
    THEN Append(chunks, cur)
    ELSE IF ShouldSplit(cur, segs[i], window)
         THEN MergeLoop(segs, i + 1, Append(chunks, cur), NewChunk(segs[i]), window)
         ELSE MergeLoop(segs, i + 1, chunks, ExtendChunk(cur, segs[i]), window)

merge_into_chunks(segs, window) ==
    IF segs = <<>>
    THEN <<>>
    ELSE MergeLoop(segs, 2, <<>>, NewChunk(segs[1]), window)

(***************************************************************************)
(* Caption path: fetch_youtube_captions / _parse_json3_captions            *)
(***************************************************************************)
\* An Optional[List[dict]]: None, or a list of chunks.
None == [isNone |-> TRUE, chunks |-> <<>>]

Some(cs) == [isNone |-> FALSE, chunks |-> cs]

\* Python truthiness of an Optional list: None and [] are both false.
Truthy(opt) == ~opt.isNone /\ opt.chunks # <<>>

RECURSIVE TextParts(_)
TextParts(segs) ==
    IF segs = <<>>
    THEN <<>>
    ELSE LET text == Strip(Head(segs))
         IN  IF text # <<>> /\ text # <<"\n">>
             THEN <<text>> \o TextParts(Tail(segs))
             ELSE TextParts(Tail(segs))

RECURSIVE JoinParts(_)
JoinParts(parts) ==
    IF Len(parts) = 1
    THEN parts[1]
    ELSE parts[1] \o <<" ">> \o JoinParts(Tail(parts))

RECURSIVE EventSegments(_)
EventSegments(events) ==
    IF events = <<>>
    THEN <<>>
    ELSE LET event == Head(events)
             text_parts == TextParts(event.segs)
         IN  IF ~event.hasSegs \/ text_parts = <<>>
             THEN EventSegments(Tail(events))
             ELSE <<[start_time |-> event.tStartMs \div 1000,
                     end_time   |-> (event.tStartMs + event.dDurationMs) \div 1000,
                     text       |-> JoinParts(text_parts)]>>
                  \o EventSegments(Tail(events))

parse_json3_captions(events) ==
    LET segs == EventSegments(events)
    IN  IF segs # <<>> THEN Some(merge_into_chunks(segs, window_seconds)) ELSE None

\* What the caption download can end in: an exception, no .json3 file, or a
\* payload (its event list).
PayloadBlank ==
    <<[hasSegs |-> TRUE, tStartMs |-> 0, dDurationMs |-> 1000, segs |-> <<<<"\n">>, <<" ">>>>],
      [hasSegs |-> FALSE, tStartMs |-> 1000, dDurationMs |-> 0, segs |-> <<>>]>>

PayloadTalk ==
    <<[hasSegs |-> TRUE, tStartMs |-> 0, dDurationMs |-> 10000,
       segs |-> <<<<"H", "i", ".", " ">>, <<"\n">>>>],
      [hasSegs |-> FALSE, tStartMs |-> 5000, dDurationMs |-> 0, segs |-> <<>>],
      [hasSegs |-> TRUE, tStartMs |-> 10000, dDurationMs |-> 25000,
       segs |-> <<<<"y", "o">>, <<"B", "y", "e">>>>]>>

CaptionOutcomes ==
    {[kind |-> "error", events |-> <<>>],
     [kind |-> "absent", events |-> <<>>],
     [kind |-> "payload", events |-> <<>>],
     [kind |-> "payload", events |-> PayloadBlank],
     [kind |-> "payload", events |-> PayloadTalk]}

fetch_youtube_captions(outcome) ==
    IF outcome.kind = "payload" THEN parse_json3_captions(outcome.events) ELSE None

(***************************************************************************)
(* Speech-to-text path: transcribe_with_whisper                            *)
(***************************************************************************)
WhisperLimitMB == 25

BytesPerMB == 1024 * 1024

\* slip: the size check is missing
TooLargeNever(size) == FALSE

\* file_size_mb > 25, with file_size_mb = getsize / (1024 * 1024)
TooLarge(size) == size > WhisperLimitMB * BytesPerMB

\* What the audio download can end in: an exception, no file, or a file of
\* some size in bytes.
AudioSizes == {WhisperLimitMB * BytesPerMB, WhisperLimitMB * BytesPerMB + 1}

AudioOutcomes ==
    {[kind |-> "error", size |-> 0], [kind |-> "missing", size |-> 0]}
    \cup {[kind |-> "file", size |-> n] : n \in AudioSizes}

RECURSIVE WhisperSegments(_)
WhisperSegments(resp) ==
    IF resp = <<>>
    THEN <<>>
    ELSE <<[start_time |-> Head(resp).start,
            end_time   |-> Head(resp).end,
            text       |-> Strip(Head(resp).text)]>> \o WhisperSegments(Tail(resp))

\* What the service call can end in: an exception, or a response (its
\* segment list, possibly empty for silent audio).
WhisperOutcomes ==
    {[kind |-> "error", segments |-> <<>>],
     [kind |-> "response", segments |-> <<>>],
     [kind |-> "response",
      segments |-> <<[start |-> 0, end |-> 40, text |-> <<" ", "O", "k", ".">>]>>]}

(***************************************************************************)
(* Summary: generate_video_summary                                         *)
(***************************************************************************)
SummaryOutcomes == {"json", "unparseable", "api_error"}

generate_video_summary(outcome) ==
    IF outcome = "json" THEN "real" ELSE "placeholder"

(***************************************************************************)
(* Tables                                                                  *)
(***************************************************************************)
\* the videos users submit: the keys of the videos table (a row that was
\* never inserted reads as NoRow)
YtIds == DOMAIN videos

NoRow == [status |-> "absent", summary |-> "null"]

Workers == 1..NumWorkers

RunIds == 1..Len(runs)

BatchSize == 100

ChunkRecords(r) ==
    [k \in 1..Len(runs[r].chunks) |->
        [video_id   |-> runs[r].video_id,
         start_time |-> runs[r].chunks[k].start_time,
         end_time   |-> runs[r].chunks[k].end_time,
         text       |-> runs[r].chunks[k].text,
         run        |-> r]]

ChunksOf(table, v) == SelectSeq(table, LAMBDA row : row.video_id = v)

DeleteChunks(table, v) == SelectSeq(table, LAMBDA row : row.video_id # v)

Min(a, b) == IF a < b THEN a ELSE b

NewRun(v, isRetry) ==
    [pc |-> "captions", video_id |-> v, retry |-> isRetry, cap |-> "pending",
     audio |-> 0, stt |-> FALSE, chunks |-> <<>>, source |-> "", i |-> 0,
     summary |-> "null", result |-> ""]

Finished(run, res) ==
    [pc |-> "done", video_id |-> run.video_id, retry |-> run.retry, cap |-> "pending",
     audio |-> 0, stt |-> FALSE, chunks |-> <<>>, source |-> "", i |-> 0,
     summary |-> "null", result |-> res]

\* a submitted URL: the shape it matches, the id in it, what the metadata
\* lookup finds
NormalSeconds == 600

LongVideoSeconds == 3 * 3600

NoUrl == [shape |-> "none", id |-> "", access |-> "ok", is_live |-> FALSE, duration |-> 0]

\* the handler of one server process: its position, the id the request
\* validated to and the response of its last request; the URL is kept with
\* a rejection and while the work it started is under way
Returned(id, code, row) ==
    [pc |-> "idle", youtube_video_id |-> id, res |-> [code |-> code, video |-> row],
     url |-> NoUrl]

\* mid-request: res.video holds the row as the select returned it
Running(id, pc, row) ==
    [pc |-> pc, youtube_video_id |-> id, res |-> [code |-> 0, video |-> row],
     url |-> NoUrl]

\* the handler serving the request for url
ForUrl(h, url) == [h EXCEPT !.url = url]

InFlight == {w \in Workers : handler[w].pc # "idle"}

\* tasks one behaviour may schedule: MaxRuns for one video, one fewer for
\* each further video
RunCap == MaxRuns + 1 - Cardinality(YtIds)

(***************************************************************************)
(* URL validation: validate_video                                          *)
(***************************************************************************)
Urls ==
    {[shape |-> "watch", id |-> v, access |-> "ok", is_live |-> FALSE,
      duration |-> NormalSeconds] : v \in YtIds}
    \cup {[shape |-> "none", id |-> "v1", access |-> "ok", is_live |-> FALSE,
           duration |-> NormalSeconds],
          [shape |-> "watch", id |-> "v1", access |-> "private", is_live |-> FALSE,
           duration |-> NormalSeconds],
          [shape |-> "watch", id |-> "v1", access |-> "ok", is_live |-> TRUE,
           duration |-> NormalSeconds],
          [shape |-> "shorts", id |-> "v1", access |-> "ok", is_live |-> FALSE,
           duration |-> LongVideoSeconds + 1]}

\* slip: a live broadcast passes
validate_videoAcceptsLive(url) ==
    IF url.shape = "none" THEN [ok |-> FALSE, id |-> ""]
    ELSE IF url.access # "ok" THEN [ok |-> FALSE, id |-> ""]
    ELSE [ok |-> TRUE, id |-> url.id]

\* extract the id, fetch the metadata, refuse a live broadcast; a long
\* video is logged and allowed
validate_video(url) ==
    IF url.shape = "none" THEN [ok |-> FALSE, id |-> ""]
    ELSE IF url.access # "ok" THEN [ok |-> FALSE, id |-> ""]
    ELSE IF url.is_live THEN [ok |-> FALSE, id |-> ""]
    ELSE IF url.duration > LongVideoSeconds THEN [ok |-> TRUE, id |-> url.id]
    ELSE [ok |-> TRUE, id |-> url.id]

(***************************************************************************)
(* submit_video.  The handler is a coroutine without an await, so one      *)
(* server process runs it to completion before its next request; requests  *)
(* served by different processes interleave between database calls.       *)
(***************************************************************************)
Init ==
    /\ videos = [v \in {"v1"} |-> NoRow]
    /\ transcript_chunks = <<>>
    /\ handler = [w \in Workers |-> Returned("", 0, NoRow)]
    /\ runs = <<>>
    /\ sttCalls = {}
    /\ segments = <<>>
    /\ mchunks = <<>>
    /\ mpc = "off"
    /\ qa_history = <<>>
    /\ ctx = [pc |-> "off"]
    /\ ask = [pc |-> "off"]

\* two videos nobody has submitted yet
InitTwoVideos ==
    /\ videos = [v \in {"v1", "v2"} |-> NoRow]
    /\ transcript_chunks = <<>>
    /\ handler = [w \in Workers |-> Returned("", 0, NoRow)]
    /\ runs = <<>>
    /\ sttCalls = {}
    /\ segments = <<>>
    /\ mchunks = <<>>
    /\ mpc = "off"
    /\ qa_history = <<>>
    /\ ctx = [pc |-> "off"]
    /\ ask = [pc |-> "off"]

mergeVars == <<segments, mchunks, mpc>>

askVars == <<qa_history, ctx, ask>>

\* slip: every existing video that is not processing is retried
SubmitVideoRetriesReady(w, url) ==
    /\ handler[w].pc = "idle"
    /\ Len(runs) + Cardinality(InFlight) < RunCap
    /\ LET v == validate_video(url)
       IN  IF ~v.ok
           THEN handler' = [handler EXCEPT ![w] = ForUrl(Returned("", 400, NoRow), url)]
           ELSE IF videos[v.id].status = "absent"
           THEN handler' = [handler EXCEPT ![w] = ForUrl(Running(v.id, "insert", NoRow), url)]
           ELSE IF videos[v.id].status # "processing"
           THEN handler' = [handler EXCEPT ![w] =
                               ForUrl(Running(v.id, "retry_update", videos[v.id]), url)]
           ELSE handler' = [handler EXCEPT ![w] = Returned(v.id, 200, videos[v.id])]
    /\ UNCHANGED <<videos, transcript_chunks, runs, sttCalls, mergeVars, askVars>>

\* validate, then select the existing row and branch on it
SubmitVideo(w, url) ==
    /\ handler[w].pc = "idle"
    /\ Len(runs) + Cardinality(InFlight) < RunCap
    /\ LET v == validate_video(url)
       IN  IF ~v.ok
           THEN handler' = [handler EXCEPT ![w] = ForUrl(Returned("", 400, NoRow), url)]
           ELSE IF videos[v.id].status = "absent"
           THEN handler' = [handler EXCEPT ![w] = ForUrl(Running(v.id, "insert", NoRow), url)]
           ELSE IF videos[v.id].status = "failed"
           THEN handler' = [handler EXCEPT ![w] =
                               ForUrl(Running(v.id, "retry_update", videos[v.id]), url)]
           ELSE handler' = [handler EXCEPT ![w] = Returned(v.id, 200, videos[v.id])]
    /\ UNCHANGED <<videos, transcript_chunks, runs, sttCalls, mergeVars, askVars>>

\* update({"status": "processing"})
SubmitRetryUpdate(w) ==
    /\ handler[w].pc = "retry_update"
    /\ videos' = [videos EXCEPT ![handler[w].youtube_video_id].status = "processing"]
    /\ handler' = [handler EXCEPT ![w].pc = "retry_delete"]
    /\ UNCHANGED <<transcript_chunks, runs, sttCalls, mergeVars, askVars>>

\* delete the old chunks, add the background task, return the video
SubmitRetryDelete(w) ==
    /\ handler[w].pc = "retry_delete"
    /\ transcript_chunks' = DeleteChunks(transcript_chunks, handler[w].youtube_video_id)
    /\ runs' = Append(runs, NewRun(handler[w].youtube_video_id, TRUE))
    /\ handler' = [handler EXCEPT ![w] =
           Returned(handler[w].youtube_video_id, 200,
                    [handler[w].res.video EXCEPT !.status = "processing"])]
    /\ UNCHANGED <<videos, sttCalls, mergeVars, askVars>>

\* insert the new row (youtube_video_id is unique), add the background task
SubmitInsert(w) ==
    /\ handler[w].pc = "insert"
    /\ LET v == handler[w].youtube_video_id
       IN  IF videos[v].status # "absent"
           THEN /\ handler' = [handler EXCEPT ![w] = Returned(v, 500, NoRow)]
                /\ UNCHANGED <<videos, runs>>
           ELSE /\ videos' = [videos EXCEPT ![v] = [status |-> "processing", summary |-> "null"]]
                /\ runs' = Append(runs, NewRun(v, FALSE))
                /\ handler' = [handler EXCEPT ![w] = Returned(v, 200, videos'[v])]
    /\ UNCHANGED <<transcript_chunks, sttCalls, mergeVars, askVars>>

(***************************************************************************)
(* _process_video, one step per external call                              *)
(***************************************************************************)
\* slip: the caption chunks are kept but get_transcript does not return
FetchCaptionsNoReturn(r, outcome) ==
    /\ runs[r].pc = "captions"
    /\ LET chunks == fetch_youtube_captions(outcome)
       IN  IF Truthy(chunks)
           THEN runs' = [runs EXCEPT ![r].pc = "audio", ![r].cap = "chunks",
                                     ![r].chunks = chunks.chunks,
                                     ![r].source = "youtube_captions"]
           ELSE runs' = [runs EXCEPT ![r].pc = "audio",
                                     ![r].cap = IF outcome.kind = "payload"
                                                THEN "empty" ELSE outcome.kind]
    /\ UNCHANGED <<videos, transcript_chunks, handler, sttCalls, mergeVars, askVars>>

\* get_transcript step 1: captions; "if chunks:" returns them
FetchCaptions(r, outcome) ==
    /\ runs[r].pc = "captions"
    /\ LET chunks == fetch_youtube_captions(outcome)
       IN  IF Truthy(chunks)
           THEN runs' = [runs EXCEPT ![r].pc = "store", ![r].cap = "chunks",
                                     ![r].chunks = chunks.chunks,
                                     ![r].source = "youtube_captions"]
           ELSE runs' = [runs EXCEPT ![r].pc = "audio",
                                     ![r].cap = IF outcome.kind = "payload"
                                                THEN "empty" ELSE outcome.kind]
    /\ UNCHANGED <<videos, transcript_chunks, handler, sttCalls, mergeVars, askVars>>

\* transcribe_with_whisper: download the audio and check its size
DownloadAudio(r, outcome) ==
    /\ runs[r].pc = "audio"
    /\ IF outcome.kind # "file"
       THEN runs' = [runs EXCEPT ![r].pc = "except", ![r].cap = "none"]
       ELSE IF TooLarge(outcome.size)
       THEN runs' = [runs EXCEPT ![r].pc = "except", ![r].cap = "none",
                                 ![r].audio = outcome.size]
       ELSE runs' = [runs EXCEPT ![r].pc = "transcribe", ![r].cap = "none",
                                 ![r].audio = outcome.size]
    /\ UNCHANGED <<videos, transcript_chunks, handler, sttCalls, mergeVars, askVars>>

\* transcribe_with_whisper: call the service, merge its segments
Transcribe(r, outcome) ==
    /\ runs[r].pc = "transcribe"
    /\ sttCalls' = sttCalls \cup {runs[r].audio}
    /\ IF outcome.kind = "error"
       THEN runs' = [runs EXCEPT ![r].pc = "except", ![r].stt = TRUE]
       ELSE runs' = [runs EXCEPT ![r].pc = "store", ![r].stt = TRUE,
                                 ![r].chunks = merge_into_chunks(
                                     WhisperSegments(outcome.segments), window_seconds),
                                 ![r].source = "whisper"]
    /\ UNCHANGED <<videos, transcript_chunks, handler, mergeVars, askVars>>

\* insert one batch of at most 100 chunk records
InsertBatch(r) ==
    /\ runs[r].pc = "store"
    /\ runs[r].i < Len(runs[r].chunks)
    /\ transcript_chunks' = transcript_chunks \o
           SubSeq(ChunkRecords(r), runs[r].i + 1,
                  Min(runs[r].i + BatchSize, Len(runs[r].chunks)))
    /\ runs' = [runs EXCEPT ![r].i = runs[r].i + BatchSize]
    /\ UNCHANGED <<videos, handler, sttCalls, mergeVars, askVars>>

\* slip: a failed summarization call is not caught
GenerateSummaryRaises(r, outcome) ==
    /\ runs[r].pc = "store"
    /\ runs[r].i >= Len(runs[r].chunks)
    /\ IF outcome = "json"
       THEN runs' = [runs EXCEPT ![r].pc = "update", ![r].summary = "real"]
       ELSE runs' = [runs EXCEPT ![r].pc = "except"]
    /\ UNCHANGED <<videos, transcript_chunks, handler, sttCalls, mergeVars, askVars>>

\* all batches inserted: generate the summary
GenerateSummary(r, outcome) ==
    /\ runs[r].pc = "store"
    /\ runs[r].i >= Len(runs[r].chunks)
    /\ runs' = [runs EXCEPT ![r].pc = "update",
                            ![r].summary = generate_video_summary(outcome)]
    /\ UNCHANGED <<videos, transcript_chunks, handler, sttCalls, mergeVars, askVars>>

\* slip: the update has no .eq("id", video_id)
UpdateReadyEveryRow(r) ==
    /\ runs[r].pc = "update"
    /\ videos' = [v \in DOMAIN videos |->
                     IF videos[v].status = "absent" THEN videos[v]
                     ELSE [status |-> "ready", summary |-> runs[r].summary]]
    /\ runs' = [runs EXCEPT ![r] = Finished(runs[r], "ready")]
    /\ UNCHANGED <<transcript_chunks, handler, sttCalls, mergeVars, askVars>>

\* update({"summary": summary, "status": "ready"})
UpdateReady(r) ==
    /\ runs[r].pc = "update"
    /\ videos' = [videos EXCEPT ![runs[r].video_id] =
                     [status |-> "ready", summary |-> runs[r].summary]]
    /\ runs' = [runs EXCEPT ![r] = Finished(runs[r], "ready")]
    /\ UNCHANGED <<transcript_chunks, handler, sttCalls, mergeVars, askVars>>

\* slip: the except branch only logs
MarkFailedOnlyLogs(r) ==
    /\ runs[r].pc = "except"
    /\ videos' = videos
    /\ runs' = [runs EXCEPT ![r] = Finished(runs[r], "failed")]
    /\ UNCHANGED <<transcript_chunks, handler, sttCalls, mergeVars, askVars>>

\* except: update({"status": "failed"})
MarkFailed(r) ==
    /\ runs[r].pc = "except"
    /\ videos' = [videos EXCEPT ![runs[r].video_id].status = "failed"]
    /\ runs' = [runs EXCEPT ![r] = Finished(runs[r], "failed")]
    /\ UNCHANGED <<transcript_chunks, handler, sttCalls, mergeVars, askVars>>

Next ==
    \/ \E w \in Workers, url \in Urls : SubmitVideo(w, url)
    \/ \E w \in Workers : SubmitRetryUpdate(w)
    \/ \E w \in Workers : SubmitRetryDelete(w)
    \/ \E w \in Workers : SubmitInsert(w)
    \/ \E r \in RunIds, o \in CaptionOutcomes : FetchCaptions(r, o)
    \/ \E r \in RunIds, o \in AudioOutcomes : DownloadAudio(r, o)
    \/ \E r \in RunIds, o \in WhisperOutcomes : Transcribe(r, o)
    \/ \E r \in RunIds : InsertBatch(r)
    \/ \E r \in RunIds, o \in SummaryOutcomes : GenerateSummary(r, o)
    \/ \E r \in RunIds : UpdateReady(r)
    \/ \E r \in RunIds : MarkFailed(r)

Spec == Init /\ [][Next]_vars

SpecTwoVideos == InitTwoVideos /\ [][Next]_vars

(***************************************************************************)
(* Properties of the ingestion pipeline                                    *)
(***************************************************************************)
StatusEdges ==
    {<<"absent", "processing">>, <<"processing", "ready">>,
     <<"processing", "failed">>, <<"failed", "processing">>}

RetryUpdateStep(v) ==
    \E w \in Workers :
        /\ handler[w].pc = "retry_update"
        /\ handler[w].youtube_video_id = v
        /\ handler'[w].pc = "retry_delete"

\* C1: whatever the interleaving of requests and background runs, a
\* video's status moves only processing -> ready, processing -> failed or
\* failed -> processing; ready is final, and failed -> processing is the
\* retry update of a submit_video request.
C1_StatusTransitions ==
    [][\A v \in YtIds :
          LET s == videos[v].status
              t == videos'[v].status
          IN  /\ (s # t => <<s, t>> \in StatusEdges)
              /\ (s = "ready" => t = "ready")
              /\ ((s = "failed" /\ t = "processing") => RetryUpdateStep(v))]_vars

\* C2: a ready video has at least one stored chunk and a stored summary.
C2_ReadyHasChunksAndSummary ==
    \A v \in YtIds :
        videos[v].status = "ready" =>
            /\ ChunksOf(transcript_chunks, v) # <<>>
            /\ videos[v].summary # "null"

RunStep(r) == r \in RunIds /\ runs'[r] # runs[r]

\* C3: a retry sets the status to processing, the chunks of earlier
\* attempts are gone before the retry's run inserts any chunk, and when
\* that run ends ready the stored chunks of the video are exactly its own.
C3_RetryFromScratch ==
    [][/\ \A v \in YtIds : RetryUpdateStep(v) => videos'[v].status = "processing"
       /\ \A r \in RunIds :
             (runs[r].retry /\ runs[r].pc = "store" /\ RunStep(r)
                 /\ transcript_chunks' # transcript_chunks)
             => \A k \in 1..Len(ChunksOf(transcript_chunks, runs[r].video_id)) :
                    ChunksOf(transcript_chunks, runs[r].video_id)[k].run = r
       /\ \A r \in RunIds :
             (runs[r].retry /\ runs[r].pc = "update" /\ RunStep(r)
                 /\ videos'[runs[r].video_id].status = "ready")
             => ChunksOf(transcript_chunks', runs[r].video_id) = ChunkRecords(r)]_vars

\* C4: a submission for a video that is ready returns the stored row and
\* changes nothing: no row, status, summary or chunk changes, no task.
C4_ReadyIsIdempotent ==
    [][\A w \in Workers :
          (/\ handler[w].pc = "idle"
           /\ handler'[w] # handler[w]
           /\ handler'[w].youtube_video_id \in YtIds
           /\ videos[handler'[w].youtube_video_id].status = "ready")
          => /\ handler'[w].pc = "idle"
             /\ handler'[w].res = [code |-> 200, video |-> videos[handler'[w].youtube_video_id]]
             /\ UNCHANGED <<videos, transcript_chunks, runs>>]_vars

C4_Witness ==
    \E w \in Workers :
        /\ handler[w].pc = "idle"
        /\ handler[w].res.code = 200
        /\ handler[w].res.video.status = "ready"
        /\ videos[handler[w].youtube_video_id].status = "ready"

\* C5: when the transcript was acquired and stored, a failed or
\* unparseable summarization gives the placeholder summary, the run then
\* writes it with status ready, and no run that got as far as the summary
\* takes the failure branch.
C5_SummaryFailureDegrades ==
    /\ [](\A r \in RunIds :
            /\ (runs[r].pc = "except" => runs[r].source = "")
            /\ (runs[r].pc = "update" => runs[r].summary \in {"real", "placeholder"}))
    /\ [][\A r \in RunIds :
            (runs[r].pc = "update" /\ runs[r].summary = "placeholder" /\ RunStep(r))
            => /\ videos'[runs[r].video_id] = [status |-> "ready", summary |-> "placeholder"]
               /\ runs'[r].result = "ready"]_vars

C5_Witness ==
    /\ \E v \in YtIds : videos[v] = [status |-> "ready", summary |-> "placeholder"]
    /\ \E r \in RunIds : runs[r].result = "ready"

AcquisitionFailed(r) == runs[r].pc = "except" /\ runs[r].cap = "none"

\* C6: no captions and a failed speech-to-text path abort the run: it has
\* stored no chunk and holds no summary, its last step writes status
\* failed and nothing else, and none of its steps (before or after the
\* failure) writes the video row otherwise, so it never sets ready.
C6_AcquisitionFailureAborts ==
    /\ [](\A r \in RunIds :
            AcquisitionFailed(r) =>
                /\ runs[r].summary = "null"
                /\ runs[r].chunks = <<>>
                /\ runs[r].i = 0)
    /\ [][\A r \in RunIds :
            /\ (AcquisitionFailed(r) /\ RunStep(r))
               => /\ videos'[runs[r].video_id].status = "failed"
                  /\ videos'[runs[r].video_id].summary = videos[runs[r].video_id].summary
                  /\ runs'[r].result = "failed"
                  /\ transcript_chunks' = transcript_chunks
            /\ (runs[r].pc \in {"captions", "audio", "transcribe"} /\ RunStep(r))
               => UNCHANGED <<videos, transcript_chunks>>]_vars

C6_Witness ==
    \E r \in RunIds :
        /\ runs[r].result = "failed"
        /\ videos[runs[r].video_id] = [status |-> "failed", summary |-> "null"]
        /\ ChunksOf(transcript_chunks, runs[r].video_id) = <<>>

\* C7: the speech-to-text path starts only after the caption path ended
\* without segments (fetch error, no caption file, no non-empty event),
\* which is never an error for the caller; with caption chunks the service
\* is not invoked; the provenance tag names the path of the chunks.
C7_OrderedStrategies ==
    \A r \in RunIds :
        /\ (runs[r].pc = "captions" => runs[r].cap = "pending" /\ ~runs[r].stt)
        /\ (runs[r].pc = "audio" =>
               /\ runs[r].cap \in {"error", "absent", "empty"}
               /\ ~runs[r].stt /\ runs[r].chunks = <<>> /\ runs[r].source = "")
        /\ (runs[r].pc \in {"transcribe", "except"} => runs[r].cap = "none")
        /\ (runs[r].stt => runs[r].cap = "none")
        /\ (runs[r].cap = "chunks" =>
               /\ ~runs[r].stt /\ runs[r].audio = 0
               /\ runs[r].chunks # <<>>
               /\ runs[r].source = "youtube_captions"
               /\ runs[r].pc \in {"store", "update"})
        /\ (runs[r].source = "youtube_captions" => runs[r].cap = "chunks")
        /\ (runs[r].source = "whisper" => runs[r].stt /\ runs[r].cap = "none")

C7_Witness ==
    \E r \in RunIds :
        /\ runs[r].pc = "store"
        /\ runs[r].source = "whisper"
        /\ runs[r].cap = "none"
        /\ runs[r].stt
        /\ Len(runs[r].chunks) = 1

CeilingBytes == 26214400

\* C8: the speech-to-text service is never invoked with more than 25 MB:
\* an oversize download fails the run before any call and without chunks;
\* audio of 25 MB or less goes on to the service.
C8_SizeCeiling ==
    /\ \A size \in sttCalls : size <= CeilingBytes
    /\ \A r \in RunIds :
          /\ runs[r].audio > CeilingBytes =>
                /\ runs[r].pc = "except"
                /\ ~runs[r].stt
                /\ runs[r].chunks = <<>>
          /\ (runs[r].audio > 0 /\ runs[r].audio <= CeilingBytes /\ ~runs[r].stt)
                => runs[r].pc = "transcribe"

C8_Witness ==
    /\ CeilingBytes \in sttCalls
    /\ \E r \in RunIds : runs[r].pc = "except" /\ runs[r].audio = CeilingBytes + 1

(***************************************************************************)
(* Merger harness: any segment list over a small grid of times and texts,  *)
(* with no ordering or well-formedness assumed.                            *)
(***************************************************************************)
SegTimes == {0, 5, 35}

SegTexts == {<<"a", ".">>, <<"b">>, <<"c", "!", " ">>}

Segment == [start_time : SegTimes, end_time : SegTimes, text : SegTexts]

SegLists == UNION {[1..n -> Segment] : n \in 0..MaxSegs}

InitMerge ==
    /\ segments \in SegLists
    /\ mchunks = <<>>
    /\ mpc = "call"
    /\ videos = <<>>
    /\ transcript_chunks = <<>>
    /\ handler = <<>>
    /\ runs = <<>>
    /\ sttCalls = {}
    /\ qa_history = <<>>
    /\ ctx = [pc |-> "off"]
    /\ ask = [pc |-> "off"]

MergeCall ==
    /\ mpc = "call"
    /\ mchunks' = merge_into_chunks(segments, window_seconds)
    /\ mpc' = "returned"
    /\ UNCHANGED <<videos, transcript_chunks, handler, runs, sttCalls, segments, askVars>>

NextMerge == MergeCall

SpecMerge == InitMerge /\ [][NextMerge]_vars

(***************************************************************************)
(* Properties of the chunk merger                                          *)
(***************************************************************************)
StartsNonDecreasing(cs) ==
    \A i \in 1..(Len(cs) - 1) : cs[i].start_time <= cs[i + 1].start_time

EndsAfterStarts(cs) ==
    \A i \in 1..Len(cs) : cs[i].end_time >= cs[i].start_time

\* C9 as stated: for every segment list whatsoever, the returned chunks
\* have non-decreasing start_time and end_time >= start_time.
C9_AnySegmentList ==
    mpc = "returned" => StartsNonDecreasing(mchunks) /\ EndsAfterStarts(mchunks)

\* C9 amended: when the input segments themselves have non-decreasing
\* start_time and end_time >= start_time, so do the returned chunks.
C9_OrderedSegmentList ==
    (mpc = "returned" /\ StartsNonDecreasing(segments) /\ EndsAfterStarts(segments))
        => (StartsNonDecreasing(mchunks) /\ EndsAfterStarts(mchunks))

C9_Witness ==
    /\ mpc = "returned"
    /\ StartsNonDecreasing(segments) /\ EndsAfterStarts(segments)
    /\ Len(segments) = 3
    /\ Len(mchunks) = 2
    /\ mchunks[1].start_time < mchunks[1].end_time
    /\ mchunks[1].start_time < mchunks[2].start_time

\* The chunk a run lo..hi of consecutive segments stands for, written from
\* the segments alone.
RECURSIVE JoinTexts(_, _, _)
JoinTexts(segs, lo, hi) ==
    IF lo = hi
    THEN segs[lo].text
    ELSE JoinTexts(segs, lo, hi - 1) \o <<" ">> \o segs[hi].text

ChunkOfRun(segs, lo, hi) ==
    [start_time |-> segs[lo].start_time,
     end_time   |-> segs[hi].end_time,
     text       |-> JoinTexts(segs, lo, hi)]

NthStart(starts, j) ==
    CHOOSE x \in starts : Cardinality({y \in starts : y < x}) = j - 1

ChunksOfCuts(segs, cuts) ==
    LET starts == {1} \cup cuts
        k      == Cardinality(starts)
    IN  [j \in 1..k |->
            ChunkOfRun(segs, NthStart(starts, j),
                       IF j = k THEN Len(segs) ELSE NthStart(starts, j + 1) - 1)]

IsPartitionImage(segs, cs) ==
    IF segs = <<>>
    THEN cs = <<>>
    ELSE \E cuts \in SUBSET (2..Len(segs)) : cs = ChunksOfCuts(segs, cuts)

\* C10: the merger only merges: the returned chunks are the chunks of a
\* partition of the input into consecutive non-empty runs (start of the
\* run's first segment, end of its last, texts joined by one space); one
\* segment gives that segment back, a non-empty input gives at least one
\* chunk, and there are never more chunks than segments.
C10_MergeOnly ==
    mpc = "returned" =>
        /\ IsPartitionImage(segments, mchunks)
        /\ (Len(segments) = 1 => mchunks = <<segments[1]>>)
        /\ (segments # <<>> => Len(mchunks) >= 1)
        /\ Len(mchunks) <= Len(segments)

C10_Witness ==
    /\ mpc = "returned"
    /\ Len(segments) = 3
    /\ Len(mchunks) = 2
    /\ mchunks[2] = ChunkOfRun(segments, 2, 3)

\* The split rule, written over the segments and a set of cut positions:
\* the chunk in progress at segment i starts at the last cut before i.
CurStart(cuts, i) ==
    CHOOSE lo \in {1} \cup cuts :
        lo < i /\ \A x \in {1} \cup cuts : x < i => x <= lo

EndsSentence(t) ==
    \E k \in 1..Len(t) :
        /\ t[k] \in {".", "!", "?"}
        /\ \A j \in (k + 1)..Len(t) : t[j] \in {" ", "\n"}

SplitRule(segs, cuts) ==
    \A i \in 2..Len(segs) :
        (i \in cuts) <=>
            LET lo == CurStart(cuts, i)
            IN  /\ segs[i].end_time - segs[lo].start_time >= window_seconds
                /\ EndsSentence(JoinTexts(segs, lo, i - 1))

HiBye ==
    <<[start_time |-> 0, end_time |-> 10, text |-> <<"H", "i", ".">>],
      [start_time |-> 10, end_time |-> 35, text |-> <<"B", "y", "e", ".">>]>>

HiByeNoStop ==
    <<[start_time |-> 0, end_time |-> 10, text |-> <<"H", "i">>],
      [start_time |-> 10, end_time |-> 35, text |-> <<"B", "y", "e", ".">>]>>

\* C11: a segment after the first starts a new chunk exactly when its
\* end_time minus the current chunk's start_time is at least the window
\* and the current chunk's text ends in '.', '!' or '?' (then optional
\* whitespace); otherwise it is merged.  With a 30 s window "Hi." 0-10 and
\* "Bye." 10-35 give two chunks; without the stop, one chunk 0-35.
C11_SplitRule ==
    /\ (mpc = "returned" /\ segments # <<>>) =>
           \E cuts \in SUBSET (2..Len(segments)) :
               /\ SplitRule(segments, cuts)
               /\ mchunks = ChunksOfCuts(segments, cuts)
    /\ merge_into_chunks(HiBye, window_seconds) = HiBye
    /\ merge_into_chunks(HiByeNoStop, window_seconds) =
           <<[start_time |-> 0, end_time |-> 35,
              text |-> <<"H", "i", " ", "B", "y", "e", ".">>]>>

C11_Witness ==
    /\ mpc = "returned"
    /\ Len(segments) = 3
    /\ segments[2].end_time - segments[1].start_time = window_seconds
    /\ Len(mchunks) = 2
    /\ mchunks[1] = segments[1]
    /\ mchunks[2] = ChunkOfRun(segments, 2, 3)

(***************************************************************************)
(* build_context (ai_service.py).  context_parts is kept as the list of    *)
(* lines that "\n".join renders; a line is a record of what was formatted  *)
(* into it.                                                                *)
(***************************************************************************)
MaxChunks == 3          \* longest chunk list given to the context harness

MaxHistory == 6         \* longest Q&A history given to the context harness

BeforeSeconds == 60

AfterSeconds == 30

NearbySeconds == 300

LastN == 5

AnswerLimit == 300

\* "MM:SS": minutes and seconds by floor division
format_time(seconds) == <<seconds \div 60, seconds % 60>>

Line(kind, a, b, text, n, mark) ==
    [kind |-> kind, a |-> a, b |-> b, text |-> text, n |-> n, mark |-> mark]

TextLine(kind, text) == Line(kind, <<0, 0>>, <<0, 0>>, text, 0, FALSE)

Blank == TextLine("", "")

SummaryHeader == "=== VIDEO SUMMARY ==="

TranscriptHeader == "=== TRANSCRIPT (around"

QAHeader == "=== PREVIOUS Q&A (this session) ==="

Headers == {SummaryHeader, TranscriptHeader, QAHeader}

RECURSIVE JoinComma(_)
JoinComma(items) ==
    IF Len(items) = 1
    THEN items[1]
    ELSE items[1] \o ", " \o JoinComma(Tail(items))

\* the dict stored in videos.summary: what generate_video_summary returned
SummaryDict(s) ==
    IF s = "real"
    THEN [title |-> "Sorting", topic |-> "How quicksort works", level |-> "beginner",
          key_concepts |-> <<"pivot", "partition">>, paragraph |-> "A walk through quicksort."]
    ELSE [title |-> "Sorting", topic |-> "Unable to generate summary", level |-> "unknown",
          key_concepts |-> <<>>,
          paragraph |-> "Summary generation failed. The video can still be used for Q&A."]

SummarySection(summary) ==
    IF summary = "null"
    THEN <<>>
    ELSE LET d == SummaryDict(summary)
         IN  <<TextLine(SummaryHeader, ""),
               TextLine("Title", d.title),
               TextLine("Topic", d.topic),
               TextLine("Level", d.level)>>
             \o (IF d.key_concepts # <<>>
                 THEN <<TextLine("Key concepts", JoinComma(d.key_concepts))>>
                 ELSE <<>>)
             \o <<TextLine("Summary", d.paragraph), Blank>>

Max(a, b) == IF a > b THEN a ELSE b

window_start(timestamp) == Max(0, timestamp - BeforeSeconds)

window_end(timestamp) == timestamp + AfterSeconds

\* slip: the window start is compared strictly
InWindowStrict(c, timestamp) ==
    /\ c.end_time > window_start(timestamp)
    /\ c.start_time <= window_end(timestamp)

InWindow(c, timestamp) ==
    /\ c.end_time >= window_start(timestamp)
    /\ c.start_time <= window_end(timestamp)

ChunkLine(c, timestamp) ==
    Line("chunk", format_time(c.start_time), format_time(c.end_time), c.text, 0,
         c.start_time <= timestamp /\ timestamp <= c.end_time)

RECURSIVE MapChunkLines(_, _)
MapChunkLines(cs, timestamp) ==
    IF cs = <<>>
    THEN <<>>
    ELSE <<ChunkLine(Head(cs), timestamp)>> \o MapChunkLines(Tail(cs), timestamp)

\* slip: the transcript header is written before the list is looked at
TranscriptSectionAlways(transcript_chunks_arg, timestamp) ==
    LET relevant_chunks == SelectSeq(transcript_chunks_arg, LAMBDA c : InWindow(c, timestamp))
    IN  <<Line(TranscriptHeader, format_time(timestamp), <<0, 0>>, "", 0, FALSE)>>
        \o MapChunkLines(relevant_chunks, timestamp) \o <<Blank>>

TranscriptSection(transcript_chunks_arg, timestamp) ==
    LET relevant_chunks == SelectSeq(transcript_chunks_arg, LAMBDA c : InWindow(c, timestamp))
    IN  IF relevant_chunks # <<>>
        THEN <<Line(TranscriptHeader, format_time(timestamp), <<0, 0>>, "", 0, FALSE)>>
             \o MapChunkLines(relevant_chunks, timestamp) \o <<Blank>>
        ELSE <<>>

Abs(x) == IF x < 0 THEN 0 - x ELSE x

Nearby(qa, timestamp) == Abs(qa.video_timestamp - timestamp) <= NearbySeconds

\* seq[-n:]
LastOf(seq, n) ==
    IF Len(seq) <= n THEN seq ELSE SubSeq(seq, Len(seq) - n + 1, Len(seq))

QALines(qa) ==
    LET t == format_time(qa.video_timestamp)
    IN  <<Line("Q", t, <<0, 0>>, qa.question, 0, FALSE),
          Line("A", t, <<0, 0>>, qa.answer.text,
               IF qa.answer.len > AnswerLimit THEN AnswerLimit ELSE qa.answer.len,
               qa.answer.len > AnswerLimit)>>

RECURSIVE MapQALines(_)
MapQALines(qas) ==
    IF qas = <<>> THEN <<>> ELSE QALines(Head(qas)) \o MapQALines(Tail(qas))

\* slip: the last five are taken before the time filter
NearbyQASliceFirst(qa_history_arg, timestamp) ==
    SelectSeq(LastOf(qa_history_arg, LastN), LAMBDA qa : Nearby(qa, timestamp))

NearbyQA(qa_history_arg, timestamp) ==
    LastOf(SelectSeq(qa_history_arg, LAMBDA qa : Nearby(qa, timestamp)), LastN)

QASection(qa_history_arg, timestamp) ==
    IF qa_history_arg = <<>>
    THEN <<>>
    ELSE LET nearby_qa == NearbyQA(qa_history_arg, timestamp)
         IN  IF nearby_qa # <<>>
             THEN <<TextLine(QAHeader, "")>> \o MapQALines(nearby_qa) \o <<Blank>>
             ELSE <<>>

build_context(summary, transcript_chunks_arg, timestamp, qa_history_arg) ==
    SummarySection(summary)
    \o TranscriptSection(transcript_chunks_arg, timestamp)
    \o QASection(qa_history_arg, timestamp)

(***************************************************************************)
(* Context harness: one ready video, any chunk rows and any history rows   *)
(* over a small grid (a longer chunk list with at most one history row, a  *)
(* longer history with at most one chunk), a query timestamp;              *)
(* build_context is called directly on the rows, or through the            *)
(* preparation of the ask routes (qa.py).                                  *)
(***************************************************************************)
QueryTimes == {10, 110, 4699, 4700}

GridChunks ==
    {[start_time |-> 0 - 10, end_time |-> 0 - 5, text |-> "countdown"],
     [start_time |-> 20, end_time |-> 50, text |-> "welcome"],
     [start_time |-> 100, end_time |-> 120, text |-> "pivot"],
     [start_time |-> 140, end_time |-> 150, text |-> "partition"],
     [start_time |-> 141, end_time |-> 160, text |-> "recursion"]}

ChunkLists == UNION {[1..n -> GridChunks] : n \in 0..MaxChunks}

HistTimes == {100, 5000}

HistTimeLists == UNION {[1..n -> HistTimes] : n \in 0..MaxHistory}

Digits == <<"1", "2", "3", "4", "5", "6", "7", "8", "9">>

\* the i-th question asked: distinct text, answers of 299, 300, 301.. characters
HistoryRow(i, t) ==
    [user_id |-> "u1", video_id |-> "v1", video_timestamp |-> t,
     question |-> "q" \o Digits[i],
     answer |-> [text |-> "a" \o Digits[i], len |-> AnswerLimit - 2 + i],
     ask |-> 0]

ChunkRow(c) ==
    [video_id |-> "v1", start_time |-> c.start_time, end_time |-> c.end_time,
     text |-> c.text, run |-> 0]

ChunkDict(row) ==
    [start_time |-> row.start_time, end_time |-> row.end_time, text |-> row.text]

QADict(row) ==
    [video_timestamp |-> row.video_timestamp, question |-> row.question,
     answer |-> row.answer]

ChunkDicts(rows) == [k \in 1..Len(rows) |-> ChunkDict(rows[k])]

QADicts(rows) == [k \in 1..Len(rows) |-> QADict(rows[k])]

\* .order("start_time"): rows of equal start_time keep their table order
RECURSIVE InsertByStart(_, _)
InsertByStart(sorted, row) ==
    IF sorted = <<>> THEN <<row>>
    ELSE IF Head(sorted).start_time <= row.start_time
    THEN <<Head(sorted)>> \o InsertByStart(Tail(sorted), row)
    ELSE <<row>> \o sorted

RECURSIVE OrderByStart(_)
OrderByStart(rows) ==
    IF rows = <<>> THEN <<>>
    ELSE InsertByStart(OrderByStart(SubSeq(rows, 1, Len(rows) - 1)), rows[Len(rows)])

\* the transcript_chunks select of the ask routes
SelectWindowChunks(video_id, timestamp) ==
    OrderByStart(SelectSeq(transcript_chunks,
        LAMBDA row : /\ row.video_id = video_id
                     /\ row.end_time >= window_start(timestamp)
                     /\ row.start_time <= window_end(timestamp)))

\* the qa_history select of the ask routes
SelectHistory(user_id, video_id) ==
    SelectSeq(qa_history, LAMBDA row : row.user_id = user_id /\ row.video_id = video_id)

Built(via, timestamp, summary, chunks, history) ==
    [pc |-> "built", via |-> via, timestamp |-> timestamp, summary |-> summary,
     chunks |-> chunks, history |-> history,
     parts |-> build_context(summary, chunks, timestamp, history)]

InitContext ==
    /\ \E s \in {"null", "real", "placeholder"} :
           videos = [v \in {"v1"} |-> [status |-> "ready", summary |-> s]]
    /\ \E cs \in ChunkLists, ts \in HistTimeLists :
           /\ Len(cs) <= 1 \/ Len(ts) <= 1
           /\ transcript_chunks = [k \in 1..Len(cs) |-> ChunkRow(cs[k])]
           /\ qa_history = [i \in 1..Len(ts) |-> HistoryRow(i, ts[i])]
    /\ \E t \in QueryTimes :
           ctx = [pc |-> "call", via |-> "", timestamp |-> t, summary |-> "null",
                  chunks |-> <<>>, history |-> <<>>, parts |-> <<>>]
    /\ ask = [pc |-> "off"]
    /\ handler = <<>>
    /\ runs = <<>>
    /\ sttCalls = {}
    /\ segments = <<>>
    /\ mchunks = <<>>
    /\ mpc = "off"

ctxFrame ==
    <<videos, transcript_chunks, handler, runs, sttCalls, mergeVars, qa_history, ask>>

\* build_context called on all rows of the video
BuildContextCall ==
    /\ ctx.pc = "call"
    /\ ctx' = Built("direct", ctx.timestamp, videos["v1"].summary,
                    ChunkDicts(transcript_chunks), QADicts(qa_history))
    /\ UNCHANGED ctxFrame

\* the ask routes: select the video, the window's chunks and the user's
\* history for the video, then build the context
AskPrepareContext ==
    /\ ctx.pc = "call"
    /\ videos["v1"].status = "ready"
    /\ ctx' = Built("route", ctx.timestamp, videos["v1"].summary,
                    ChunkDicts(SelectWindowChunks("v1", ctx.timestamp)),
                    QADicts(SelectHistory("u1", "v1")))
    /\ UNCHANGED ctxFrame

NextContext == BuildContextCall \/ AskPrepareContext

SpecContext == InitContext /\ [][NextContext]_vars

(***************************************************************************)
(* Properties of build_context                                             *)
(***************************************************************************)
Section(kind) ==
    IF kind \in {SummaryHeader, "Title", "Topic", "Level", "Key concepts", "Summary"} THEN 1
    ELSE IF kind \in {TranscriptHeader, "chunk"} THEN 2
    ELSE IF kind \in {QAHeader, "Q", "A"} THEN 3
    ELSE 0

HasLine(parts, kind) == \E k \in DOMAIN parts : parts[k].kind = kind

\* the clamped window of build_context, written out
Overlaps(c, t) ==
    /\ c.end_time >= 0
    /\ c.end_time >= t - BeforeSeconds
    /\ c.start_time <= t + AfterSeconds

Within(qa, t) ==
    /\ qa.video_timestamp - t <= NearbySeconds
    /\ t - qa.video_timestamp <= NearbySeconds

\* C12: the sections come in the order summary, transcript window, prior
\* Q&A; every section starts with its header, which is followed by at least
\* one line of that section; the summary header is there iff a summary was
\* given, the transcript header iff some chunk overlaps the window, the Q&A
\* header iff some history entry passes the time filter; with all three
\* absent the output is empty.
C12_SectionsAndHeaders ==
    ctx.pc = "built" =>
        LET parts == ctx.parts
            t == ctx.timestamp
        IN  /\ \A h \in Headers :
                   Cardinality({k \in DOMAIN parts : parts[k].kind = h}) <= 1
            /\ \A j, k \in DOMAIN parts :
                   (j < k /\ Section(parts[j].kind) # 0 /\ Section(parts[k].kind) # 0)
                       => Section(parts[j].kind) <= Section(parts[k].kind)
            /\ \A k \in DOMAIN parts :
                   /\ (parts[k].kind \in Headers) <=>
                          (parts[k] # Blank /\ (k = 1 \/ parts[k - 1] = Blank))
                   /\ (parts[k].kind \in Headers) =>
                          /\ k + 1 \in DOMAIN parts
                          /\ parts[k + 1].kind \notin Headers
                          /\ Section(parts[k + 1].kind) = Section(parts[k].kind)
            /\ HasLine(parts, SummaryHeader) <=> ctx.summary # "null"
            /\ HasLine(parts, TranscriptHeader) <=>
                   \E i \in DOMAIN ctx.chunks : Overlaps(ctx.chunks[i], t)
            /\ HasLine(parts, QAHeader) <=>
                   \E i \in DOMAIN ctx.history : Within(ctx.history[i], t)
            /\ (parts = <<>>) <=>
                   /\ ctx.summary = "null"
                   /\ \A i \in DOMAIN ctx.chunks : ~Overlaps(ctx.chunks[i], t)
                   /\ \A i \in DOMAIN ctx.history : ~Within(ctx.history[i], t)

\* a summary and a nearby entry but chunks that all miss the window: the
\* summary is followed directly by the Q&A section
C12_Witness ==
    /\ ctx.pc = "built"
    /\ ctx.summary = "placeholder"
    /\ ctx.chunks # <<>>
    /\ ctx.history # <<>>
    /\ HasLine(ctx.parts, SummaryHeader)
    /\ ~HasLine(ctx.parts, TranscriptHeader)
    /\ HasLine(ctx.parts, QAHeader)
    /\ Len(ctx.parts) = 10

ChunkLinesOf(parts) == SelectSeq(parts, LAMBDA l : l.kind = "chunk")

\* the window as the description states it
InStatedWindow(c, t) ==
    /\ c.end_time >= t - BeforeSeconds
    /\ c.start_time <= t + AfterSeconds

VideoChunkDicts(v) ==
    {ChunkDict(transcript_chunks[k]) :
        k \in {j \in DOMAIN transcript_chunks : transcript_chunks[j].video_id = v}}

QALinesOf(parts) == SelectSeq(parts, LAMBDA l : l.kind \in {"Q", "A"})

NearbyEntry == QADict(HistoryRow(1, 100))

FarEntry == QADict(HistoryRow(2, 5000))

\* C14: the prior-Q&A section holds exactly the last min(5, k) of the k
\* history entries within 300 seconds (inclusive) of the query timestamp,
\* taken after the time filter, in input order; with entries at 100 s and
\* 5000 s and a query at 110 s only the 100 s entry is rendered.
C14_LastFiveNearby ==
    /\ ctx.pc = "built" =>
           LET within == SelectSeq(ctx.history, LAMBDA qa : Within(qa, ctx.timestamp))
               k == Len(within)
               m == IF k < LastN THEN k ELSE LastN
           IN  QALinesOf(ctx.parts) = MapQALines(SubSeq(within, k - m + 1, k))
    /\ QALinesOf(build_context("null", <<>>, 110, <<NearbyEntry, FarEntry>>))
           = QALines(NearbyEntry)

\* six entries pass the filter and the far one is the newest: the oldest of
\* the six is dropped, five are rendered
C14_Witness ==
    /\ ctx.pc = "built"
    /\ Len(ctx.history) = MaxHistory
    /\ \A i \in 1..LastN + 1 : Within(ctx.history[i], ctx.timestamp)
    /\ Len(QALinesOf(ctx.parts)) = 2 * LastN
    /\ QALinesOf(ctx.parts)[1].text = "q2"

(***************************************************************************)
(* The ask routes (qa.py) with answer_question and answer_question_stream  *)
(* (ai_service.py).  Requests are served one after the other.  A text is   *)
(* a record of its content and its length; a history row carries the       *)
(* number of the request that inserted it.                                 *)
(***************************************************************************)
MaxAsks == 2            \* ask requests in one behaviour

MaxDeltas == 2          \* deltas the generation backend streams for one answer

Text(text, len) == [text |-> text, len |-> len]

ErrorFragment == Text("\n\n[Error: Failed to generate answer. Please try again.]", 55)

\* delta.content of a streamed piece: a fragment, or nothing
Deltas == {Text("Pick a ", 7), Text("pivot.", 6), Text("", 0)}

\* message.content of a complete answer
Answers == {Text("Pick a pivot.", 13), Text("It splits the list.", 19)}

RECURSIVE JoinAnswer(_)
JoinAnswer(parts) ==
    IF parts = <<>>
    THEN Text("", 0)
    ELSE LET rest == JoinAnswer(Tail(parts))
         IN  Text(Head(parts).text \o rest.text, Head(parts).len + rest.len)

AskRequests ==
    {[video_id |-> "v1", timestamp |-> 110, question |-> "Why a pivot?"],
     [video_id |-> "v1", timestamp |-> 110, question |-> ""],
     [video_id |-> "", timestamp |-> 110, question |-> "Why a pivot?"],
     [video_id |-> "v2", timestamp |-> 110, question |-> "Why a pivot?"],
     [video_id |-> "v9", timestamp |-> 110, question |-> "Why a pivot?"]}

NewGen == [pc |-> "new", received |-> <<>>, failed |-> FALSE, yielded |-> <<>>]

\* the request being served and what it has done so far; after the response
\* the record stays until the next request
NewAsk(n, mode, req) ==
    [pc |-> "idle", n |-> n, mode |-> mode, user_id |-> "u1",
     video_id |-> req.video_id, timestamp |-> req.timestamp, question |-> req.question,
     context |-> <<>>, backend |-> "", answer |-> Text("", 0), gen |-> NewGen,
     full_answer_parts |-> <<>>, sent |-> <<>>, code |-> 0]

\* the checks both routes make before any work
AskPrecheck(req) ==
    IF req.video_id = "" \/ req.question = "" THEN 400
    ELSE IF req.video_id \notin DOMAIN videos THEN 404
    ELSE IF videos[req.video_id].status = "absent" THEN 404
    ELSE IF videos[req.video_id].status # "ready" THEN 400
    ELSE 0

AskContext(req) ==
    build_context(videos[req.video_id].summary,
                  ChunkDicts(SelectWindowChunks(req.video_id, req.timestamp)),
                  req.timestamp,
                  QADicts(SelectHistory("u1", req.video_id)))

QAEntry(a, answer) ==
    [user_id |-> a.user_id, video_id |-> a.video_id, video_timestamp |-> a.timestamp,
     question |-> a.question, answer |-> answer, ask |-> a.n]

DataEvent(fragment) == [kind |-> "text", text |-> fragment.text, qa_id |-> 0]

DoneEvent(qa_id) == [kind |-> "done", text |-> "", qa_id |-> qa_id]

InitAsk ==
    /\ videos = [v \in {"v1", "v2"} |->
                    IF v = "v1" THEN [status |-> "ready", summary |-> "real"]
                    ELSE [status |-> "processing", summary |-> "null"]]
    /\ transcript_chunks =
           <<ChunkRow([start_time |-> 100, end_time |-> 120, text |-> "pivot"]),
             ChunkRow([start_time |-> 141, end_time |-> 160, text |-> "recursion"])>>
    /\ qa_history = <<>>
    /\ ask = NewAsk(0, "", [video_id |-> "", timestamp |-> 0, question |-> ""])
    /\ ctx = [pc |-> "off"]
    /\ handler = <<>>
    /\ runs = <<>>
    /\ sttCalls = {}
    /\ segments = <<>>
    /\ mchunks = <<>>
    /\ mpc = "off"

askFrame == <<videos, transcript_chunks, handler, runs, sttCalls, mergeVars, ctx>>

\* POST /qa/ask up to the call of answer_question
AskQuestionEndpoint(req) ==
    /\ ask.pc = "idle"
    /\ ask.n < MaxAsks
    /\ LET a == NewAsk(ask.n + 1, "sync", req)
           code == AskPrecheck(req)
       IN  IF code # 0
           THEN ask' = [a EXCEPT !.code = code]
           ELSE ask' = [a EXCEPT !.pc = "answer", !.context = AskContext(req)]
    /\ UNCHANGED <<qa_history, askFrame>>

\* slip: a failed generation is stored as the answer
AnswerQuestionStoresError(outcome) ==
    /\ ask.pc = "answer"
    /\ LET answer == IF outcome.kind = "error" THEN ErrorFragment ELSE outcome.answer
       IN  /\ qa_history' = Append(qa_history, QAEntry(ask, answer))
           /\ ask' = [ask EXCEPT !.pc = "idle", !.backend = outcome.kind,
                                  !.answer = answer, !.code = 200]
    /\ UNCHANGED askFrame

\* answer_question returns or raises; the route stores the answer and
\* returns the row, or answers 500
AnswerQuestion(outcome) ==
    /\ ask.pc = "answer"
    /\ IF outcome.kind = "error"
       THEN /\ ask' = [ask EXCEPT !.pc = "idle", !.backend = "error", !.code = 500]
            /\ UNCHANGED qa_history
       ELSE /\ qa_history' = Append(qa_history, QAEntry(ask, outcome.answer))
            /\ ask' = [ask EXCEPT !.pc = "idle", !.backend = "ok",
                                   !.answer = outcome.answer, !.code = 200]
    /\ UNCHANGED askFrame

AnswerOutcomes ==
    {[kind |-> "error", answer |-> Text("", 0)]}
    \cup {[kind |-> "ok", answer |-> a] : a \in Answers}

\* POST /qa/ask/stream up to the StreamingResponse
AskQuestionStreamEndpoint(req) ==
    /\ ask.pc = "idle"
    /\ ask.n < MaxAsks
    /\ LET a == NewAsk(ask.n + 1, "stream", req)
           code == AskPrecheck(req)
       IN  IF code # 0
           THEN ask' = [a EXCEPT !.code = code]
           ELSE ask' = [a EXCEPT !.pc = "stream", !.context = AskContext(req), !.code = 200]
    /\ UNCHANGED <<qa_history, askFrame>>

\* what the backend does when the generator asks for the next piece
StreamOutcomes ==
    {[kind |-> "error", delta |-> Text("", 0)], [kind |-> "end", delta |-> Text("", 0)]}
    \cup {[kind |-> "delta", delta |-> d] : d \in Deltas}

\* event_generator consumes one fragment
Consume(a, fragment) ==
    [a EXCEPT !.full_answer_parts = Append(@, fragment),
              !.sent = Append(@, DataEvent(fragment)),
              !.gen.yielded = Append(@, fragment)]

\* slip: a backend failure leaves the generator as an exception
StreamNextRaises(outcome) ==
    /\ ask.pc = "stream"
    /\ ask.gen.pc \in {"new", "iter"}
    /\ outcome.kind = "delta" => Len(ask.gen.received) < MaxDeltas
    /\ outcome.kind = "end" => ask.gen.pc = "iter"
    /\ IF outcome.kind = "error"
       THEN ask' = [ask EXCEPT !.pc = "idle", !.backend = "error", !.gen.failed = TRUE,
                               !.gen.pc = "raised"]
       ELSE IF outcome.kind = "end"
       THEN ask' = [ask EXCEPT !.gen.pc = "ended", !.backend = "ok"]
       ELSE IF outcome.delta.len > 0
       THEN ask' = [Consume(ask, outcome.delta) EXCEPT
                        !.gen.pc = "iter", !.gen.received = Append(@, outcome.delta)]
       ELSE ask' = [ask EXCEPT !.gen.pc = "iter", !.gen.received = Append(@, outcome.delta)]
    /\ UNCHANGED <<qa_history, askFrame>>

\* answer_question_stream runs to its next yield or to its end: the create
\* call or the iteration fails (one error fragment), the stream ends, or a
\* delta arrives and is yielded if it has content
StreamNext(outcome) ==
    /\ ask.pc = "stream"
    /\ ask.gen.pc \in {"new", "iter"}
    /\ outcome.kind = "delta" => Len(ask.gen.received) < MaxDeltas
    /\ outcome.kind = "end" => ask.gen.pc = "iter"
    /\ IF outcome.kind = "error"
       THEN ask' = [Consume(ask, ErrorFragment) EXCEPT
                        !.backend = "error", !.gen.failed = TRUE, !.gen.pc = "except"]
       ELSE IF outcome.kind = "end"
       THEN ask' = [ask EXCEPT !.gen.pc = "ended", !.backend = "ok"]
       ELSE IF outcome.delta.len > 0
       THEN ask' = [Consume(ask, outcome.delta) EXCEPT
                        !.gen.pc = "iter", !.gen.received = Append(@, outcome.delta)]
       ELSE ask' = [ask EXCEPT !.gen.pc = "iter", !.gen.received = Append(@, outcome.delta)]
    /\ UNCHANGED <<qa_history, askFrame>>

\* resumed after the error fragment, the generator falls off its end
StreamAfterError ==
    /\ ask.pc = "stream"
    /\ ask.gen.pc = "except"
    /\ ask' = [ask EXCEPT !.gen.pc = "ended"]
    /\ UNCHANGED <<qa_history, askFrame>>

\* slip: the answer is saved as soon as there is a fragment
SaveAnswerEarly ==
    /\ ask.pc = "stream"
    /\ ask.full_answer_parts # <<>>
    /\ qa_history' = Append(qa_history, QAEntry(ask, JoinAnswer(ask.full_answer_parts)))
    /\ ask' = [ask EXCEPT !.pc = "done_event", !.answer = JoinAnswer(ask.full_answer_parts)]
    /\ UNCHANGED askFrame

\* event_generator after its loop: insert the joined answer
SaveAnswer ==
    /\ ask.pc = "stream"
    /\ ask.gen.pc = "ended"
    /\ qa_history' = Append(qa_history, QAEntry(ask, JoinAnswer(ask.full_answer_parts)))
    /\ ask' = [ask EXCEPT !.pc = "done_event", !.answer = JoinAnswer(ask.full_answer_parts)]
    /\ UNCHANGED askFrame

\* event_generator's last yield: the done event with the id of the new row
SendDone ==
    /\ ask.pc = "done_event"
    /\ ask' = [ask EXCEPT !.pc = "idle", !.sent = Append(@, DoneEvent(Len(qa_history)))]
    /\ UNCHANGED <<qa_history, askFrame>>

\* the client goes away: the server closes event_generator where it stands
ClientDisconnect ==
    /\ ask.pc \in {"stream", "done_event"}
    /\ ask' = [ask EXCEPT !.pc = "idle",
                           !.gen.pc = IF @ = "ended" THEN "ended" ELSE "closed"]
    /\ UNCHANGED <<qa_history, askFrame>>

NextAsk ==
    \/ \E req \in AskRequests : AskQuestionEndpoint(req)
    \/ \E o \in AnswerOutcomes : AnswerQuestion(o)
    \/ \E req \in AskRequests : AskQuestionStreamEndpoint(req)
    \/ \E o \in StreamOutcomes : StreamNext(o)
    \/ StreamAfterError
    \/ SaveAnswer
    \/ SendDone
    \/ ClientDisconnect

SpecAsk == InitAsk /\ [][NextAsk]_vars

(***************************************************************************)
(* Properties of the ask routes                                            *)
(***************************************************************************)
RowsOfAsk(n) == {k \in DOMAIN qa_history : qa_history[k].ask = n}

Streaming == ask.mode = "stream" /\ ask.code = 200

ContentOf(deltas) == SelectSeq(deltas, LAMBDA d : d.len > 0)

StreamYieldsOneError ==
    Streaming =>
        /\ ask.gen.pc \in {"new", "iter", "except", "ended", "closed"}
        /\ ask.gen.yielded =
               ContentOf(ask.gen.received)
               \o (IF ask.gen.failed THEN <<ErrorFragment>> ELSE <<>>)
        /\ ask.gen.failed <=> ask.backend = "error"
        /\ ask.gen.failed => ask.gen.pc \in {"except", "ended", "closed"}

StreamEndsAfterError ==
    (Streaming /\ ask.gen.failed /\ ask'.n = ask.n) =>
        /\ ask'.gen.yielded = ask.gen.yielded
        /\ ask'.gen.received = ask.gen.received
        /\ ask'.gen.pc \in {"ended", "closed"}

\* C15: when the backend fails, before the first fragment or after n of
\* them, answer_question_stream has yielded the fragments with content
\* received so far and then exactly one error fragment; it does not raise
\* to its consumer, and after the error fragment it yields nothing more
\* and ends.
C15_StreamFailureYieldsOneError ==
    []StreamYieldsOneError /\ [][StreamEndsAfterError]_vars

\* the backend failed after one fragment and the generator has ended
C15_Witness ==
    /\ Streaming
    /\ ask.gen.pc = "ended"
    /\ ask.gen.failed
    /\ Len(ask.gen.received) = 1
    /\ ask.gen.yielded = <<Text("Pick a ", 7), ErrorFragment>>

DataEventsOf(sent) == SelectSeq(sent, LAMBDA e : e.kind = "text")

DoneSent == \E k \in DOMAIN ask.sent : ask.sent[k].kind = "done"

\* C16: for a streaming request no history entry exists while fragments
\* are still being emitted; an entry exists only once the fragment sequence
\* has ended, there is exactly one, its answer is the concatenation of all
\* emitted fragments in emission order (a final error fragment included),
\* and the done event is sent only after the insert, as the last event.
C16_SaveAfterExhaustion ==
    Streaming =>
        /\ DataEventsOf(ask.sent) = [k \in 1..Len(ask.gen.yielded) |-> DataEvent(ask.gen.yielded[k])]
        /\ ask.pc = "stream" => RowsOfAsk(ask.n) = {}
        /\ ask.pc = "done_event" => RowsOfAsk(ask.n) # {}
        /\ RowsOfAsk(ask.n) # {} =>
               /\ ask.gen.pc = "ended"
               /\ RowsOfAsk(ask.n) = {Len(qa_history)}
               /\ qa_history[Len(qa_history)] =
                      [user_id |-> "u1", video_id |-> ask.video_id,
                       video_timestamp |-> ask.timestamp, question |-> ask.question,
                       answer |-> JoinAnswer(ask.gen.yielded), ask |-> ask.n]
        /\ DoneSent =>
               /\ RowsOfAsk(ask.n) # {}
               /\ ask.pc = "idle"
               /\ ask.sent[Len(ask.sent)] = DoneEvent(Len(qa_history))
               /\ Len(ask.sent) = Len(ask.gen.yielded) + 1

\* two fragments, then the backend failed; the stored answer is the two
\* fragments followed by the error fragment, and the done event names it
C16_Witness ==
    /\ Streaming
    /\ DoneSent
    /\ ask.gen.failed
    /\ Len(ask.gen.yielded) = 3
    /\ qa_history[Len(qa_history)].ask = ask.n
    /\ qa_history[Len(qa_history)].answer.len = 13 + ErrorFragment.len

SyncOutcome ==
    (ask.mode = "sync" /\ ask.n > 0) =>
        /\ ask.pc = "answer" => RowsOfAsk(ask.n) = {}
        /\ (ask.pc = "idle" /\ ask.backend = "") =>
               ask.code \in {400, 404} /\ RowsOfAsk(ask.n) = {}
        /\ (ask.pc = "idle" /\ ask.backend = "error") =>
               ask.code = 500 /\ RowsOfAsk(ask.n) = {}
        /\ (ask.pc = "idle" /\ ask.backend = "ok") =>
               /\ ask.code = 200
               /\ ask.answer \in Answers
               /\ RowsOfAsk(ask.n) = {Len(qa_history)}
               /\ qa_history[Len(qa_history)] =
                      [user_id |-> "u1", video_id |-> ask.video_id,
                       video_timestamp |-> ask.timestamp, question |-> ask.question,
                       answer |-> ask.answer, ask |-> ask.n]

SyncHistoryStep ==
    ask'.mode = "sync" =>
        \/ qa_history' = qa_history
        \/ /\ ask'.backend = "ok"
           /\ Len(qa_history') = Len(qa_history) + 1
           /\ SubSeq(qa_history', 1, Len(qa_history)) = qa_history

\* C17: on the synchronous path a backend failure is answered with an
\* error (500) and the history is left as it was; a successful ask inserts
\* exactly one entry, with the question, the timestamp and the full
\* answer; no step of a synchronous request changes the history otherwise.
C17_SyncFailureStoresNothing ==
    []SyncOutcome /\ [][SyncHistoryStep]_vars

\* the second request fails in the backend; the first one's entry is all
\* the history holds
C17_Witness ==
    /\ ask.mode = "sync"
    /\ ask.n = 2
    /\ ask.pc = "idle"
    /\ ask.backend = "error"
    /\ ask.code = 500
    /\ Len(qa_history) = 1
    /\ qa_history[1].ask = 1

(***************************************************************************)
(* Properties of submit_video's validation and of concurrent pipelines     *)
(***************************************************************************)
InvalidUrl(url) == url.shape = "none" \/ url.access # "ok" \/ url.is_live

RejectedAtOnce ==
    \A w \in Workers :
        /\ handler[w].res.code = 400 => handler[w].url # NoUrl
        /\ handler[w].url # NoUrl =>
               IF InvalidUrl(handler[w].url)
               THEN /\ handler[w].pc = "idle"
                    /\ handler[w].res.code = 400
                    /\ handler[w].youtube_video_id = ""
               ELSE /\ handler[w].pc \in {"insert", "retry_update", "retry_delete"}
                    /\ handler[w].youtube_video_id = handler[w].url.id

RejectionTouchesNothing ==
    \A w \in Workers :
        (handler[w].pc = "idle" /\ handler'[w] # handler[w] /\ InvalidUrl(handler'[w].url))
            => /\ videos' = videos
               /\ transcript_chunks' = transcript_chunks
               /\ runs' = runs

\* C18: a request whose URL matches no accepted shape, whose metadata
\* cannot be read, or which names a live broadcast is answered 400 in its
\* first step: no video row is created or modified, no chunk is deleted,
\* no background task is added.  A URL of a video longer than 3 hours is
\* not rejected.
C18_ValidationRejectsEarly ==
    []RejectedAtOnce /\ [][RejectionTouchesNothing]_vars

\* a live broadcast is refused while the retry of a failed video, asked
\* for with the URL of a video of more than 3 hours, is under way
C18_Witness ==
    /\ \E w \in Workers :
           /\ handler[w].url.duration > LongVideoSeconds
           /\ handler[w].pc = "retry_delete"
    /\ \E w \in Workers :
           /\ handler[w].url.is_live
           /\ handler[w].res.code = 400
    /\ \E r \in RunIds : runs[r].result = "failed"
    /\ videos["v1"].status = "processing"

OnlyRunOf(r) == \A q \in RunIds : runs[q].video_id = runs[r].video_id => q = r

NoRequestFor(v) ==
    \A w \in Workers : handler[w].pc = "idle" \/ handler[w].youtube_video_id # v

Fresh == [status |-> "processing", summary |-> "null"]

\* what a video's rows are at each point of its only run, whatever the
\* runs of other videos are doing
AsIfAlone ==
    \A r \in RunIds :
        OnlyRunOf(r) =>
            LET v == runs[r].video_id
                rows == ChunksOf(transcript_chunks, v)
            IN  /\ runs[r].pc \in {"captions", "audio", "transcribe", "except"} =>
                       rows = <<>> /\ videos[v] = Fresh
                /\ runs[r].pc = "store" =>
                       /\ rows = SubSeq(ChunkRecords(r), 1,
                                        Min(runs[r].i, Len(runs[r].chunks)))
                       /\ videos[v] = Fresh
                /\ runs[r].pc = "update" =>
                       rows = ChunkRecords(r) /\ videos[v] = Fresh
                /\ (runs[r].pc = "done" /\ NoRequestFor(v)) =>
                       /\ videos[v].status = runs[r].result
                       /\ \A k \in DOMAIN rows : rows[k].run = r
                       /\ runs[r].result = "failed" =>
                              rows = <<>> /\ videos[v].summary = "null"
                       /\ runs[r].result = "ready" =>
                              videos[v].summary \in {"real", "placeholder"}

RunWritesOwnRows ==
    \A r \in RunIds :
        runs'[r] # runs[r] =>
            \A v \in YtIds :
                v # runs[r].video_id =>
                    /\ videos'[v] = videos[v]
                    /\ ChunksOf(transcript_chunks', v) = ChunksOf(transcript_chunks, v)

\* C19: with pipelines of different videos interleaved, a step of a run
\* changes no video row and no chunk row of another video, and at every
\* point of a video's only run its status, summary and chunks are the ones
\* that run alone produces.
C19_PipelinesDoNotInterfere ==
    []AsIfAlone /\ [][RunWritesOwnRows]_vars

\* the runs of two videos overlapped: the first has finished ready, the
\* second has stored its chunks and is about to update its row
C19_Witness ==
    /\ Len(runs) = 2
    /\ runs[1].video_id # runs[2].video_id
    /\ runs[1].result = "ready"
    /\ runs[2].pc = "update"
    /\ ChunksOf(transcript_chunks, runs[1].video_id) # <<>>
    /\ ChunksOf(transcript_chunks, runs[2].video_id) # <<>>
    /\ transcript_chunks[1].video_id = runs[2].video_id

ActiveRuns(v) == {r \in RunIds : runs[r].video_id = v /\ runs[r].pc # "done"}

\* C20: whatever the interleaving of submit_video requests for one video,
\* at most one _process_video run of it is scheduled or in flight at a
\* time, and its chunk rows all come from one run.
C20_OneRunPerVideo ==
    \A v \in YtIds :
        /\ Cardinality(ActiveRuns(v)) <= 1
        /\ \A j, k \in DOMAIN transcript_chunks :
               transcript_chunks[j].video_id = transcript_chunks[k].video_id
                   => transcript_chunks[j].run = transcript_chunks[k].run

(***************************************************************************)
(* Database calls that raise.  Each call of submit_video and of            *)
(* _process_video to the persistence layer either returns, as in Next, or  *)
(* raises.  An exception in submit_video is not caught: the request ends   *)
(* with a server error before the lines that follow.  An exception inside  *)
(* the try of _process_video enters its except branch; one raised by the   *)
(* except branch itself leaves the task.                                   *)
(***************************************************************************)
\* the select raises: server error, nothing read
SubmitSelectRaises(w, url) ==
    /\ handler[w].pc = "idle"
    /\ Len(runs) + Cardinality(InFlight) < RunCap
    /\ validate_video(url).ok
    /\ handler' = [handler EXCEPT ![w] = Returned(validate_video(url).id, 500, NoRow)]
    /\ UNCHANGED <<videos, transcript_chunks, runs, sttCalls, mergeVars, askVars>>

\* update({"status": "processing"}) raises: the row keeps its status
SubmitRetryUpdateRaises(w) ==
    /\ handler[w].pc = "retry_update"
    /\ handler' = [handler EXCEPT ![w] = Returned(handler[w].youtube_video_id, 500, NoRow)]
    /\ UNCHANGED <<videos, transcript_chunks, runs, sttCalls, mergeVars, askVars>>

\* the delete raises after the update was written: no task is added
SubmitRetryDeleteRaises(w) ==
    /\ handler[w].pc = "retry_delete"
    /\ handler' = [handler EXCEPT ![w] = Returned(handler[w].youtube_video_id, 500, NoRow)]
    /\ UNCHANGED <<videos, transcript_chunks, runs, sttCalls, mergeVars, askVars>>

\* the insert of the new row raises: no row, no task
SubmitInsertRaises(w) ==
    /\ handler[w].pc = "insert"
    /\ handler' = [handler EXCEPT ![w] = Returned(handler[w].youtube_video_id, 500, NoRow)]
    /\ UNCHANGED <<videos, transcript_chunks, runs, sttCalls, mergeVars, askVars>>

\* the insert of a batch raises: the batches before it stay, except branch
InsertBatchRaises(r) ==
    /\ runs[r].pc = "store"
    /\ runs[r].i < Len(runs[r].chunks)
    /\ runs' = [runs EXCEPT ![r].pc = "except"]
    /\ UNCHANGED <<videos, transcript_chunks, handler, sttCalls, mergeVars, askVars>>

\* update({"summary": summary, "status": "ready"}) raises: except branch
UpdateReadyRaises(r) ==
    /\ runs[r].pc = "update"
    /\ runs' = [runs EXCEPT ![r].pc = "except"]
    /\ UNCHANGED <<videos, transcript_chunks, handler, sttCalls, mergeVars, askVars>>

\* update({"status": "failed"}) raises inside the except branch: the
\* exception leaves _process_video and the task is over
MarkFailedRaises(r) ==
    /\ runs[r].pc = "except"
    /\ runs' = [runs EXCEPT ![r] = Finished(runs[r], "raised")]
    /\ UNCHANGED <<videos, transcript_chunks, handler, sttCalls, mergeVars, askVars>>

\* the calls whose exception the code answers: those of submit_video
\* before its first write, and those inside the try of _process_video
NextCaughtFaults ==
    \/ Next
    \/ \E w \in Workers, url \in Urls : SubmitSelectRaises(w, url)
    \/ \E w \in Workers : SubmitRetryUpdateRaises(w)
    \/ \E w \in Workers : SubmitInsertRaises(w)
    \/ \E r \in RunIds : InsertBatchRaises(r)
    \/ \E r \in RunIds : UpdateReadyRaises(r)

\* every database call may raise
NextFaults ==
    \/ NextCaughtFaults
    \/ \E w \in Workers : SubmitRetryDeleteRaises(w)
    \/ \E r \in RunIds : MarkFailedRaises(r)

\* a request that has started goes on to its next database call, which
\* returns or raises
RequestStep(w) ==
    \/ SubmitRetryUpdate(w) \/ SubmitRetryUpdateRaises(w)
    \/ SubmitRetryDelete(w) \/ SubmitRetryDeleteRaises(w)
    \/ SubmitInsert(w) \/ SubmitInsertRaises(w)

\* a scheduled task is run, and each of its external calls returns or raises
ProcessVideoStep(r) ==
    /\ r \in RunIds
    /\ \/ \E o \in CaptionOutcomes : FetchCaptions(r, o)
       \/ \E o \in AudioOutcomes : DownloadAudio(r, o)
       \/ \E o \in WhisperOutcomes : Transcribe(r, o)
       \/ InsertBatch(r) \/ InsertBatchRaises(r)
       \/ \E o \in SummaryOutcomes : GenerateSummary(r, o)
       \/ UpdateReady(r) \/ UpdateReadyRaises(r)
       \/ MarkFailed(r) \/ MarkFailedRaises(r)

Fairness ==
    /\ \A w \in Workers : WF_vars(RequestStep(w))
    /\ \A r \in 1..MaxRuns : WF_vars(ProcessVideoStep(r))

SpecCaughtFaults == Init /\ [][NextCaughtFaults]_vars /\ Fairness

SpecFaults == Init /\ [][NextFaults]_vars /\ Fairness

(***************************************************************************)
(* C21: every video that enters processing leaves it                        *)
(***************************************************************************)
AllYtIds == {"v1", "v2"}

Processing(v) == v \in DOMAIN videos /\ videos[v].status = "processing"

Settled(v) == v \in DOMAIN videos /\ videos[v].status \in {"ready", "failed"}

\* C21: whenever a video is in status processing, it later is in status
\* ready or failed, given that every started request and every scheduled
\* task takes its steps and every database call returns or raises
C21_ProcessingEnds ==
    \A v \in AllYtIds : Processing(v) ~> Settled(v)

====
